---------------------------- MODULE Spec2Model ----------------------------
(***************************************************************************)
(* Model of the joke-generator HTTP service (jswanson806/joke-generator).  *)
(*                                                                         *)
(* The repository holds two variants of the same program:                  *)
(*   application/main.go  providers are package variables holding          *)
(*                        functions, every failure is returned as an error *)
(*   httpserver/main.go   providers are plain functions, every failure     *)
(*                        inside a provider ends the process (os.Exit(1))  *)
(* Both are modelled; the variable `variant` says which one is running.    *)
(*                                                                         *)
(* Text (Go strings) is a sequence of chunks, each chunk a TLA+ string     *)
(* standing for a run of characters; concatenation is \o.  The nil error   *)
(* is the empty text, a non-nil error is its (non-empty) message.          *)
(***************************************************************************)
EXTENDS Integers, Sequences, FiniteSets, TLC

(***************************************************************************)
(* Bounds of the model.                                                    *)
(***************************************************************************)
\* number of inbound requests (each served by its own getRoot call)
NReq == 2
\* a failed write of the joke accepts at most this many leading chunks
MaxShortWrite == 1

Reqs == 1..NReq

(***************************************************************************)
(* State.                                                                  *)
(***************************************************************************)
VARIABLES
    variant,        \* which main.go is running
    getRandomName,  \* the function bound to var getRandomName
    getRandomJoke,  \* the function bound to var getRandomJoke
    returnCompleteJoke, \* the function bound to var returnCompleteJoke
    alive,          \* the server process is running
    pc,             \* per request: where getRoot stands
    wg,             \* per request: counter of getRoot's sync.WaitGroup
    name,           \* per request: getRoot's local name
    joke,           \* per request: getRoot's local joke
    err,            \* per request: getRoot's local err
    gName,          \* per request: the goroutine calling getRandomName
    gJoke,          \* per request: the goroutine calling getRandomJoke
    w,              \* per request: the http.ResponseWriter
    ctx,            \* per request: r.Context() is canceled
    jokeReq,        \* per request: URL of the joke request sent
    nameResp,       \* history: what the name call met
    jokeResp,       \* history: what the joke call met
    nameRet,        \* history: what getRandomName returned
    jokeRet,        \* history: what getRandomJoke was given and returned
    wrote           \* history: outcome of io.WriteString in returnCompleteJoke

vars == <<variant, getRandomName, getRandomJoke, returnCompleteJoke, alive, pc,
          wg, name, joke, err, gName, gJoke, w, ctx, jokeReq, nameResp, jokeResp,
          nameRet, jokeRet, wrote>>

config == <<variant, getRandomName, getRandomJoke, returnCompleteJoke>>
locals == <<name, joke, err>>
history == <<nameResp, jokeResp, nameRet, jokeRet, wrote>>

(***************************************************************************)
(* Program constants.                                                      *)
(***************************************************************************)
StatusOK == 200
StatusInternalServerError == 500

\* url.Parse(randNameEndpoint): no query string
randNameEndpoint == [Scheme |-> "https", Host |-> "names.mcquay.me",
                     Path |-> "/api/v0/", RawQuery |-> <<>>]

\* url.Parse(randJokeBaseEndpoint): the constant carries a query string
randJokeBaseEndpoint == [Scheme |-> "http", Host |-> "joke.loc8u.com:8888",
                         Path |-> "/joke",
                         RawQuery |-> <<"limitTo", "=", "nerdy">>]

Variants == {"application", "httpserver"}

(***************************************************************************)
(* Values of the Go types.                                                 *)
(***************************************************************************)
nil == <<>>

\* type Names struct { FirstName, LastName string }; Names{} is its zero value
Names(first, last) == [FirstName |-> first, LastName |-> last]

\* type Joke struct { Value struct { Joke string } }
Joke(text) == [Value |-> [Joke |-> text]]

(***************************************************************************)
(* The environment: what the two remote services and the network can do.   *)
(***************************************************************************)
\* status codes a service may answer with (one 2xx, one non-2xx)
ServiceStatuses == {200, 503}
Is2xx(s) == s >= 200 /\ s <= 299

\* what client.Do fails with when the 30 s client timeout passes
NetErrors == {"Client.Timeout exceeded"}

\* A response body of the name service.
\*   json = "invalid"   not JSON at all
\*   json = "mismatch"  valid JSON that does not fit the struct (an array)
\*   json = "object"    a JSON object; each of the two fields may be absent
NameBody(json, hasFirst, first, hasLast, last) ==
    [json |-> json, raw |-> IF json = "invalid" THEN <<"<html>">>
                            ELSE IF json = "mismatch" THEN <<"[]">> ELSE <<>>,
     hasFirst |-> hasFirst, first |-> first, hasLast |-> hasLast, last |-> last]

NoNameBody == NameBody("none", FALSE, <<>>, FALSE, <<>>)
FullNameBody == NameBody("object", TRUE, <<"Ann">>, TRUE, <<"Mc", " ", "Coy">>)

NameBodies ==
    { NameBody("invalid", FALSE, <<>>, FALSE, <<>>),
      NameBody("mismatch", FALSE, <<>>, FALSE, <<>>),
      NameBody("object", TRUE, <<"Ann">>, FALSE, <<>>),
      FullNameBody }

\* A response body of the joke service: {"value": {"joke": ...}}, where the
\* wrapper or the joke may be absent.  The joke text is made by the service
\* from the query string it received.
JokeBody(json, hasValue, hasJoke, text) ==
    [json |-> json, raw |-> IF json = "invalid" THEN <<"<html>">>
                            ELSE IF json = "mismatch" THEN <<"[]">> ELSE <<>>,
     hasValue |-> hasValue, hasJoke |-> hasJoke, joke |-> text]

JokeShapes == {"invalid", "novalue", "nojoke", "joke"}

\* What an outbound call meets: kind "neterr" (client.Do fails), "readerr"
\* (the headers arrived, reading the body fails) or "response".
NoOutcome == [kind |-> "none", cause |-> "", status |-> 0]
NetErr(c) == [kind |-> "neterr", cause |-> c, status |-> 0]
ReadErr(s) == [kind |-> "readerr", cause |-> "unexpected EOF", status |-> s]
Response(s) == [kind |-> "response", cause |-> "", status |-> s]

Outcomes ==
    { NetErr(c) : c \in NetErrors }
    \cup { ReadErr(200) }
    \cup { Response(s) : s \in ServiceStatuses }

\* the bodies a service sends with a status: every shape with 200, the
\* well-formed one with the non-2xx status
NameBodiesFor(o) ==
    IF o.kind # "response" THEN {NoNameBody}
    ELSE IF o.status = 200 THEN NameBodies ELSE {FullNameBody}

JokeShapesFor(o) ==
    IF o.kind # "response" THEN {"none"}
    ELSE IF o.status = 200 THEN JokeShapes ELSE {"joke"}

(***************************************************************************)
(* url.Values.Encode and its inverse on the service's side.                *)
(***************************************************************************)
\* url.QueryEscape of one chunk: a space becomes "+", reserved characters
\* are percent-encoded, unreserved runs are kept
EscapeChunk(c) ==
    CASE c = " " -> "+"
      [] c = "&" -> "%26"
      [] c = "=" -> "%3D"
      [] c = "+" -> "%2B"
      [] OTHER   -> c

QueryEscape(s) == [i \in 1..Len(s) |-> EscapeChunk(s[i])]

UnescapeChunk(c) ==
    CASE c = "+"   -> " "
      [] c = "%26" -> "&"
      [] c = "%3D" -> "="
      [] c = "%2B" -> "+"
      [] OTHER     -> c

QueryUnescape(s) == [i \in 1..Len(s) |-> UnescapeChunk(s[i])]

\* params := url.Values{}; params.Add("firstName", ..); params.Add("lastName", ..);
\* params.Encode(): the keys sorted, "key=value" joined by "&"
EncodeParams(firstName, lastName) ==
    <<"firstName", "=">> \o QueryEscape(firstName)
        \o <<"&", "lastName", "=">> \o QueryEscape(lastName)

\* the joke service reading the query string of the request it received
QueryValue(q, key) ==
    LET k == CHOOSE i \in 1..Len(q) : q[i] = key /\ (i = 1 \/ q[i-1] = "&")
        rest == SubSeq(q, k + 2, Len(q))
        stop == IF \E i \in 1..Len(rest) : rest[i] = "&"
                THEN (CHOOSE i \in 1..Len(rest) :
                          rest[i] = "&" /\ \A j \in 1..(i-1) : rest[j] # "&") - 1
                ELSE Len(rest)
    IN  QueryUnescape(SubSeq(rest, 1, stop))

HasParam(q, key) == \E i \in 1..Len(q) : q[i] = key /\ (i = 1 \/ q[i-1] = "&")

\* the joke the service writes for a request: its template with the name of
\* the query string substituted
ServiceJoke(q) ==
    <<"Joke about ">>
        \o (IF HasParam(q, "firstName") THEN QueryValue(q, "firstName") ELSE <<"Chuck">>)
        \o <<" ">>
        \o (IF HasParam(q, "lastName") THEN QueryValue(q, "lastName") ELSE <<"Norris">>)

ServiceJokeBody(shape, q) ==
    CASE shape = "invalid"  -> JokeBody("invalid", FALSE, FALSE, <<>>)
      [] shape = "novalue"  -> JokeBody("object", FALSE, FALSE, <<>>)
      [] shape = "nojoke"   -> JokeBody("object", TRUE, FALSE, <<>>)
      [] OTHER              -> JokeBody("object", TRUE, TRUE, ServiceJoke(q))

NoJokeBody == JokeBody("none", FALSE, FALSE, <<>>)

(***************************************************************************)
(* encoding/json on the two structs.                                       *)
(***************************************************************************)
jsonValid(b) == b.json # "invalid"

\* json.Unmarshal(resBody, &n): an error for a body that is not JSON or does
\* not fit; a field the object lacks keeps its zero value ""
UnmarshalNamesErr(b) == b.json # "object"
UnmarshalNames(b) ==
    Names(IF b.json = "object" /\ b.hasFirst THEN b.first ELSE <<>>,
          IF b.json = "object" /\ b.hasLast THEN b.last ELSE <<>>)

UnmarshalJokeErr(b) == b.json # "object"
UnmarshalJoke(b) ==
    Joke(IF b.json = "object" /\ b.hasValue /\ b.hasJoke THEN b.joke ELSE <<>>)

(***************************************************************************)
(* The providers.  A provider call yields [exit, val, err]: exit says the  *)
(* call ended the process (os.Exit(1)) instead of returning.               *)
(* url.Parse and http.NewRequest are applied to constants that parse, so   *)
(* their error branches cannot be taken and are left out.                  *)
(***************************************************************************)
Returns(val, e) == [exit |-> FALSE, val |-> val, err |-> e]
Exits(val) == [exit |-> TRUE, val |-> val, err |-> nil]

\* application/main.go: var getRandomName = func() (Names, error)
getRandomName_application(o, b) ==
    CASE o.kind = "neterr" ->
            Returns(Names(<<>>, <<>>),
                    <<"client: error making http request: ", o.cause>>)
      [] o.kind = "readerr" ->
            Returns(Names(<<>>, <<>>),
                    <<"client: could not read response body: ", o.cause>>)
      [] OTHER ->
            IF jsonValid(b)
            THEN IF UnmarshalNamesErr(b)
                 THEN Returns(Names(<<>>, <<>>),
                              <<"error unmarshalling JSON: ", "cannot unmarshal">>)
                 ELSE Returns(UnmarshalNames(b), nil)
            ELSE Returns(Names(<<>>, <<>>),
                         <<"non-JSON response received: ">> \o b.raw)

\* httpserver/main.go: func getRandomName() (Names, error)
getRandomName_httpserver(o, b) ==
    CASE o.kind = "neterr" -> Exits(Names(<<>>, <<>>))
      [] o.kind = "readerr" -> Exits(Names(<<>>, <<>>))
      [] OTHER ->
            IF UnmarshalNamesErr(b)
            THEN Exits(Names(<<>>, <<>>))
            ELSE Returns(UnmarshalNames(b), nil)

\* the URL getRandomJoke requests: base.RawQuery = params.Encode()
JokeURL(firstName, lastName) ==
    [randJokeBaseEndpoint EXCEPT !.RawQuery = EncodeParams(firstName, lastName)]

\* application/main.go: var getRandomJoke = func(firstName, lastName string) (string, error)
getRandomJoke_application(o, b) ==
    CASE o.kind = "neterr" ->
            Returns(<<>>, <<"client: error making http request: ", o.cause>>)
      [] o.kind = "readerr" ->
            Returns(<<>>, <<"client: could not read response body: ", o.cause>>)
      [] OTHER ->
            IF UnmarshalJokeErr(b)
            THEN Returns(<<>>, <<"error unmarshalling JSON: ", "cannot unmarshal">>)
            ELSE Returns(UnmarshalJoke(b).Value.Joke, nil)

\* httpserver/main.go: func getRandomJoke(firstName, lastName string) (string, error)
getRandomJoke_httpserver(o, b) ==
    CASE o.kind = "neterr" -> Exits(<<>>)
      [] o.kind = "readerr" -> Exits(<<>>)
      [] OTHER ->
            IF UnmarshalJokeErr(b)
            THEN Exits(<<>>)
            ELSE Returns(UnmarshalJoke(b).Value.Joke, nil)

\* the functions the tests bind to the provider variables ("mockOK",
\* "mockFail"; "real" is the function of main.go)
mockGetRandomName(binding) ==
    IF binding = "mockOK"
    THEN Returns(Names(<<"John">>, <<"Doe">>), nil)
    ELSE Returns(Names(<<>>, <<>>), <<"failed to fetch name">>)

mockGetRandomJoke(binding, firstName, lastName) ==
    IF binding = "mockOK"
    THEN Returns(<<"Mocked joke about John Doe">>, nil)
    ELSE Returns(<<>>, <<"failed to fetch joke">>)

(***************************************************************************)
(* http.ResponseWriter: the status committed, the body the writer took,    *)
(* and the calls the handler made on it.                                   *)
(***************************************************************************)
NewResponse == [status |-> 0, body |-> <<>>, calls |-> <<>>]

\* w.WriteHeader(code): only the first status is committed
WriteHeader(rw, code) ==
    [rw EXCEPT !.status = IF rw.status = 0 THEN code ELSE rw.status,
              !.calls = Append(rw.calls, <<"WriteHeader", code>>)]

\* w.Write(data): commits 200 when no status is committed yet, then takes
\* all of data, or the first n chunks when the write fails
Write(rw, data, ok, n) ==
    [rw EXCEPT !.status = IF rw.status = 0 THEN StatusOK ELSE rw.status,
              !.body = rw.body \o (IF ok THEN data ELSE SubSeq(data, 1, n)),
              !.calls = Append(rw.calls, <<"Write", data>>)]

\* http.Error(w, msg, code): w.WriteHeader(code); fmt.Fprintln(w, msg).
\* ok: the writer takes the text (it does not once a write has failed)
httpError(rw, msg, code, ok) ==
    Write(WriteHeader(rw, code), <<msg, "\n">>, ok, 0)

\* outcomes of io.WriteString(w, joke): all of it taken and a nil error, or
\* the first n chunks taken and an error
WriteOutcomes(j) ==
    { [ok |-> TRUE, n |-> Len(j)] }
    \cup { [ok |-> FALSE, n |-> k] : k \in { i \in 0..Len(j) : i <= MaxShortWrite } }

FailedWriteMsg(v) ==
    IF v = "application" THEN "failed to write response" ELSE "Failed to write response"

\* returnCompleteJoke with fmt.Fprintln in place of io.WriteString
\* (a variation used to test C1)
returnCompleteJoke_println(v, j, rw, wo) ==
    LET rw1 == Write(rw, j \o <<"\n">>, wo.ok, wo.n)
    IN  IF ~wo.ok
        THEN httpError(rw1, FailedWriteMsg(v), StatusInternalServerError, FALSE)
        ELSE rw1

\* returnCompleteJoke numbering the jokes the process has served (a
\* variation used to test C10)
returnCompleteJoke_numbered(v, j, rw, wo) ==
    LET tag == IF \E q \in Reqs : pc[q] = "done" THEN <<" (again)">> ELSE <<>>
        rw1 == Write(rw, j \o tag, wo.ok, wo.n)
    IN  IF ~wo.ok
        THEN httpError(rw1, FailedWriteMsg(v), StatusInternalServerError, FALSE)
        ELSE rw1

\* returnCompleteJoke(joke, w): io.WriteString, and http.Error when it fails
returnCompleteJoke_func(v, j, rw, wo) ==
    LET rw1 == Write(rw, j, wo.ok, wo.n)
    IN  IF ~wo.ok
        THEN httpError(rw1, FailedWriteMsg(v), StatusInternalServerError, FALSE)
        ELSE rw1

NoCall == [calls |-> 0, args |-> <<>>, val |-> <<>>, err |-> nil, exit |-> FALSE]
NoWrite == [done |-> FALSE, ok |-> FALSE, n |-> 0]
NoResp == [o |-> NoOutcome, json |-> "none", missing |-> FALSE]

\* the provider bindings a process can run with: production, and the ones
\* the tests install (only application/main.go has assignable providers)
Configs ==
    { <<v, "real", "real">> : v \in Variants }
    \cup { <<"application", "mockOK", "mockOK">>,
           <<"application", "mockFail", "real">>,
           <<"application", "mockOK", "mockFail">> }

Init ==
    /\ \E c \in Configs :
          /\ variant = c[1]
          /\ getRandomName = c[2]
          /\ getRandomJoke = c[3]
    /\ returnCompleteJoke = "real"
    /\ alive = TRUE
    /\ pc = [r \in Reqs |-> "idle"]
    /\ wg = [r \in Reqs |-> 0]
    /\ name = [r \in Reqs |-> Names(<<>>, <<>>)]
    /\ joke = [r \in Reqs |-> <<>>]
    /\ err = [r \in Reqs |-> nil]
    /\ gName = [r \in Reqs |-> "none"]
    /\ gJoke = [r \in Reqs |-> "none"]
    /\ w = [r \in Reqs |-> NewResponse]
    /\ ctx = [r \in Reqs |-> FALSE]
    /\ jokeReq = [r \in Reqs |-> randJokeBaseEndpoint]
    /\ nameResp = [r \in Reqs |-> NoResp]
    /\ jokeResp = [r \in Reqs |-> NoResp]
    /\ nameRet = [r \in Reqs |-> NoCall]
    /\ jokeRet = [r \in Reqs |-> NoCall]
    /\ wrote = [r \in Reqs |-> NoWrite]

(***************************************************************************)
(* getRoot, one action per step of the handler and of its two goroutines.  *)
(***************************************************************************)
\* the joke-stage reply with the name-stage text (a variation used to test C3)
JokeErrMsg_copied(v) ==
    IF v = "application" THEN "failed to get name" ELSE "Failed to get name"

NameErrMsg(v) == IF v = "application" THEN "failed to get name" ELSE "Failed to get name"
JokeErrMsg(v) == IF v = "application" THEN "failed to get joke" ELSE "Failed to get joke"

\* the first goroutine's  if err != nil { err = fmt.Errorf(...) }
WrapNameErr(v, e) ==
    IF e # nil /\ v = "application" THEN <<"failed to get name: ">> \o e ELSE e

\* the second goroutine's  if err != nil { err = fmt.Errorf(...) }
WrapJokeErr(v, e) ==
    IF e # nil /\ v = "application" THEN <<"error getting joke: ">> \o e ELSE e

\* the arguments in the wrong order (a variation used to test C4)
JokeArgs_swapped(n) == <<n.LastName, n.FirstName>>

\* the arguments read from a name shared by all requests, holding what the
\* latest request stored (a variation used to test C9)
JokeArgs_shared(n) ==
    LET q == CHOOSE q \in Reqs :
                 /\ gName[q] \in {"exited"}
                 /\ \A p \in Reqs : gName[p] \in {"exited"} => p <= q
    IN  <<name[q].FirstName, name[q].LastName>>

\* the arguments of getRandomJoke(name.FirstName, name.LastName)
JokeArgs(n) == <<n.FirstName, n.LastName>>

\* the server calls getRoot for a request: wg.Add(1); go func() {...}()
\* (requests are numbered in the order they arrive)
Serve(r) ==
    /\ alive
    /\ pc[r] = "idle"
    /\ \A q \in Reqs : q < r => pc[q] # "idle"
    /\ pc' = [pc EXCEPT ![r] = "wait1"]
    /\ wg' = [wg EXCEPT ![r] = wg[r] + 1]
    /\ gName' = [gName EXCEPT ![r] = "start"]
    /\ UNCHANGED <<config, alive, locals, gJoke, w, ctx, jokeReq, history>>

\* goroutine 1 calls the real getRandomName: the GET request is sent
NameSend(r) ==
    /\ alive
    /\ gName[r] = "start"
    /\ getRandomName = "real"
    /\ gName' = [gName EXCEPT ![r] = "inflight"]
    /\ nameRet' = [nameRet EXCEPT ![r].calls = nameRet[r].calls + 1]
    /\ UNCHANGED <<config, alive, pc, wg, locals, gJoke, w, ctx, jokeReq,
                   nameResp, jokeResp, jokeRet, wrote>>

\* goroutine 1 calls a test's getRandomName, which returns at once, and the
\* goroutine ends: defer wg.Done()
NameMock(r) ==
    /\ alive
    /\ gName[r] = "start"
    /\ getRandomName # "real"
    /\ LET res == mockGetRandomName(getRandomName)
       IN  /\ name' = [name EXCEPT ![r] = res.val]
           /\ err' = [err EXCEPT ![r] = WrapNameErr(variant, res.err)]
           /\ nameRet' = [nameRet EXCEPT ![r] =
                             [calls |-> nameRet[r].calls + 1, args |-> <<>>,
                              val |-> res.val, err |-> res.err, exit |-> FALSE]]
    /\ gName' = [gName EXCEPT ![r] = "exited"]
    /\ wg' = [wg EXCEPT ![r] = wg[r] - 1]
    /\ UNCHANGED <<config, alive, pc, joke, gJoke, w, ctx, jokeReq,
                   nameResp, jokeResp, jokeRet, wrote>>

\* the name call ends: getRandomName exits the process, or returns into
\* name, err = ...  and goroutine 1 ends: defer wg.Done()
NameReturn(r) ==
    /\ alive
    /\ gName[r] = "inflight"
    /\ \E o \in Outcomes :
       \E b \in NameBodiesFor(o) :
          LET res == IF variant = "application"
                     THEN getRandomName_application(o, b)
                     ELSE getRandomName_httpserver(o, b)
          IN  /\ nameResp' = [nameResp EXCEPT ![r] =
                                 [o |-> o, json |-> b.json,
                                  missing |-> b.json = "object"
                                              /\ (~b.hasFirst \/ ~b.hasLast)]]
              /\ nameRet' = [nameRet EXCEPT ![r].val = res.val, ![r].err = res.err,
                                            ![r].exit = res.exit]
              /\ IF res.exit
                 THEN /\ alive' = FALSE
                      /\ UNCHANGED <<locals, gName, wg>>
                 ELSE /\ name' = [name EXCEPT ![r] = res.val]
                      /\ err' = [err EXCEPT ![r] = WrapNameErr(variant, res.err)]
                      /\ gName' = [gName EXCEPT ![r] = "exited"]
                      /\ wg' = [wg EXCEPT ![r] = wg[r] - 1]
                      /\ UNCHANGED <<alive, joke>>
    /\ UNCHANGED <<config, pc, gJoke, w, ctx, jokeReq, jokeResp, jokeRet,
                   wrote>>

\* AfterName replying with the text of err, http.Error(w, err.Error(), ...)
\* (a variation used to test C11)
AfterName_leaks(r) ==
    /\ alive
    /\ pc[r] = "wait1"
    /\ wg[r] = 0
    /\ IF err[r] # nil
       THEN /\ w' = [w EXCEPT ![r] = Write(WriteHeader(w[r], StatusInternalServerError),
                                           err[r] \o <<"\n">>, TRUE, 0)]
            /\ pc' = [pc EXCEPT ![r] = "done"]
            /\ ctx' = [ctx EXCEPT ![r] = TRUE]
            /\ UNCHANGED <<wg, gJoke>>
       ELSE /\ wg' = [wg EXCEPT ![r] = wg[r] + 1]
            /\ gJoke' = [gJoke EXCEPT ![r] = "start"]
            /\ pc' = [pc EXCEPT ![r] = "wait2"]
            /\ UNCHANGED <<w, ctx>>
    /\ UNCHANGED <<config, alive, locals, gName, jokeReq, history>>

\* AfterName without the first wg.Wait() (a variation used to test C12)
AfterName_noWait(r) ==
    /\ alive
    /\ pc[r] = "wait1"
    /\ IF err[r] # nil
       THEN /\ w' = [w EXCEPT ![r] = httpError(w[r], NameErrMsg(variant),
                                               StatusInternalServerError, TRUE)]
            /\ pc' = [pc EXCEPT ![r] = "done"]
            /\ ctx' = [ctx EXCEPT ![r] = TRUE]
            /\ UNCHANGED <<wg, gJoke>>
       ELSE /\ wg' = [wg EXCEPT ![r] = wg[r] + 1]
            /\ gJoke' = [gJoke EXCEPT ![r] = "start"]
            /\ pc' = [pc EXCEPT ![r] = "wait2"]
            /\ UNCHANGED <<w, ctx>>
    /\ UNCHANGED <<config, alive, locals, gName, jokeReq, history>>

\* AfterName installing a stand-in provider once the name call has failed,
\* getRandomName = func() (Names, error) {...} (a variation used to test C18)
AfterName_fallback(r) ==
    /\ alive
    /\ pc[r] = "wait1"
    /\ wg[r] = 0
    /\ IF err[r] # nil
       THEN /\ w' = [w EXCEPT ![r] = httpError(w[r], NameErrMsg(variant),
                                               StatusInternalServerError, TRUE)]
            /\ pc' = [pc EXCEPT ![r] = "done"]
            /\ ctx' = [ctx EXCEPT ![r] = TRUE]
            /\ getRandomName' = "mockOK"
            /\ UNCHANGED <<wg, gJoke>>
       ELSE /\ wg' = [wg EXCEPT ![r] = wg[r] + 1]
            /\ gJoke' = [gJoke EXCEPT ![r] = "start"]
            /\ pc' = [pc EXCEPT ![r] = "wait2"]
            /\ UNCHANGED <<w, ctx, getRandomName>>
    /\ UNCHANGED <<variant, getRandomJoke, returnCompleteJoke, alive, locals,
                   gName, jokeReq, history>>

\* AfterName without the return that follows http.Error (a variation used
\* to test C2)
AfterName_noReturn(r) ==
    /\ alive
    /\ pc[r] = "wait1"
    /\ wg[r] = 0
    /\ w' = [w EXCEPT ![r] = IF err[r] # nil
                             THEN httpError(w[r], NameErrMsg(variant),
                                            StatusInternalServerError, TRUE)
                             ELSE w[r]]
    /\ wg' = [wg EXCEPT ![r] = wg[r] + 1]
    /\ gJoke' = [gJoke EXCEPT ![r] = "start"]
    /\ pc' = [pc EXCEPT ![r] = "wait2"]
    /\ UNCHANGED <<config, alive, locals, gName, ctx, jokeReq, history>>

\* the handler passes the first wg.Wait(): the error reply and the return
\* (the server cancels the request's context when the handler returns), or
\* wg.Add(1); go func() {...}()
AfterName(r) ==
    /\ alive
    /\ pc[r] = "wait1"
    /\ wg[r] = 0
    /\ IF err[r] # nil
       THEN /\ w' = [w EXCEPT ![r] = httpError(w[r], NameErrMsg(variant),
                                               StatusInternalServerError, TRUE)]
            /\ pc' = [pc EXCEPT ![r] = "done"]
            /\ ctx' = [ctx EXCEPT ![r] = TRUE]
            /\ UNCHANGED <<wg, gJoke>>
       ELSE /\ wg' = [wg EXCEPT ![r] = wg[r] + 1]
            /\ gJoke' = [gJoke EXCEPT ![r] = "start"]
            /\ pc' = [pc EXCEPT ![r] = "wait2"]
            /\ UNCHANGED <<w, ctx>>
    /\ UNCHANGED <<config, alive, locals, gName, jokeReq, history>>

\* goroutine 2 calls the real getRandomJoke: the URL is built, the GET sent
JokeSend(r) ==
    /\ alive
    /\ gJoke[r] = "start"
    /\ getRandomJoke = "real"
    /\ LET args == JokeArgs(name[r])
       IN  /\ jokeReq' = [jokeReq EXCEPT ![r] = JokeURL(args[1], args[2])]
           /\ jokeRet' = [jokeRet EXCEPT ![r].calls = jokeRet[r].calls + 1,
                                         ![r].args = args]
    /\ gJoke' = [gJoke EXCEPT ![r] = "inflight"]
    /\ UNCHANGED <<config, alive, pc, wg, locals, gName, w, ctx,
                   nameResp, jokeResp, nameRet, wrote>>

\* goroutine 2 calls a test's getRandomJoke, which returns at once, and the
\* goroutine ends: defer wg.Done()
JokeMock(r) ==
    /\ alive
    /\ gJoke[r] = "start"
    /\ getRandomJoke # "real"
    /\ LET args == JokeArgs(name[r])
           res == mockGetRandomJoke(getRandomJoke, args[1], args[2])
       IN  /\ joke' = [joke EXCEPT ![r] = res.val]
           /\ err' = [err EXCEPT ![r] = WrapJokeErr(variant, res.err)]
           /\ jokeRet' = [jokeRet EXCEPT ![r] =
                             [calls |-> jokeRet[r].calls + 1, args |-> args,
                              val |-> res.val, err |-> res.err, exit |-> FALSE]]
    /\ gJoke' = [gJoke EXCEPT ![r] = "exited"]
    /\ wg' = [wg EXCEPT ![r] = wg[r] - 1]
    /\ UNCHANGED <<config, alive, pc, name, gName, w, ctx, jokeReq,
                   nameResp, jokeResp, nameRet, wrote>>

\* the joke call ends: getRandomJoke exits the process, or returns into
\* joke, err = ...  and goroutine 2 ends: defer wg.Done()
JokeReturn(r) ==
    /\ alive
    /\ gJoke[r] = "inflight"
    /\ \E o \in Outcomes :
       \E shape \in JokeShapesFor(o) :
          LET b == IF o.kind = "response"
                   THEN ServiceJokeBody(shape, jokeReq[r].RawQuery)
                   ELSE NoJokeBody
              res == IF variant = "application"
                     THEN getRandomJoke_application(o, b)
                     ELSE getRandomJoke_httpserver(o, b)
          IN  /\ jokeResp' = [jokeResp EXCEPT ![r] =
                                 [o |-> o, json |-> b.json,
                                  missing |-> b.json = "object"
                                              /\ (~b.hasValue \/ ~b.hasJoke)]]
              /\ jokeRet' = [jokeRet EXCEPT ![r].val = res.val, ![r].err = res.err,
                                            ![r].exit = res.exit]
              /\ IF res.exit
                 THEN /\ alive' = FALSE
                      /\ UNCHANGED <<locals, gJoke, wg>>
                 ELSE /\ joke' = [joke EXCEPT ![r] = res.val]
                      /\ err' = [err EXCEPT ![r] = WrapJokeErr(variant, res.err)]
                      /\ gJoke' = [gJoke EXCEPT ![r] = "exited"]
                      /\ wg' = [wg EXCEPT ![r] = wg[r] - 1]
                      /\ UNCHANGED <<alive, name>>
    /\ UNCHANGED <<config, pc, gName, w, ctx, jokeReq, nameResp, nameRet,
                   wrote>>

\* AfterJoke starting the joke goroutine once more when the first attempt
\* failed (a variation used to test C13)
AfterJoke_retry(r) ==
    /\ alive
    /\ pc[r] = "wait2"
    /\ wg[r] = 0
    /\ IF err[r] # nil /\ jokeRet[r].calls < 2
       THEN /\ wg' = [wg EXCEPT ![r] = wg[r] + 1]
            /\ gJoke' = [gJoke EXCEPT ![r] = "start"]
            /\ UNCHANGED <<w, wrote, pc, ctx>>
       ELSE /\ IF err[r] # nil
               THEN /\ w' = [w EXCEPT ![r] = httpError(w[r], JokeErrMsg(variant),
                                                       StatusInternalServerError, TRUE)]
                    /\ UNCHANGED wrote
               ELSE \E wo \in WriteOutcomes(joke[r]) :
                       /\ w' = [w EXCEPT ![r] =
                                   returnCompleteJoke_func(variant, joke[r], w[r], wo)]
                       /\ wrote' = [wrote EXCEPT ![r] =
                                       [done |-> TRUE, ok |-> wo.ok, n |-> wo.n]]
            /\ pc' = [pc EXCEPT ![r] = "done"]
            /\ ctx' = [ctx EXCEPT ![r] = TRUE]
            /\ UNCHANGED <<wg, gJoke>>
    /\ UNCHANGED <<config, alive, locals, gName, jokeReq,
                   nameResp, jokeResp, nameRet, jokeRet>>

\* AfterJoke without the second wg.Wait() (a variation used to test C19)
AfterJoke_noWait(r) ==
    /\ alive
    /\ pc[r] = "wait2"
    /\ IF err[r] # nil
       THEN /\ w' = [w EXCEPT ![r] = httpError(w[r], JokeErrMsg(variant),
                                               StatusInternalServerError, TRUE)]
            /\ UNCHANGED wrote
       ELSE \E wo \in WriteOutcomes(joke[r]) :
               /\ w' = [w EXCEPT ![r] =
                           returnCompleteJoke_func(variant, joke[r], w[r], wo)]
               /\ wrote' = [wrote EXCEPT ![r] =
                               [done |-> TRUE, ok |-> wo.ok, n |-> wo.n]]
    /\ pc' = [pc EXCEPT ![r] = "done"]
    /\ ctx' = [ctx EXCEPT ![r] = TRUE]
    /\ UNCHANGED <<config, alive, wg, locals, gName, gJoke, jokeReq,
                   nameResp, jokeResp, nameRet, jokeRet>>

\* the handler passes the second wg.Wait(): the error reply, or
\* returnCompleteJoke(joke, w); then getRoot returns (and the server cancels
\* the request's context)
AfterJoke(r) ==
    /\ alive
    /\ pc[r] = "wait2"
    /\ wg[r] = 0
    /\ IF err[r] # nil
       THEN /\ w' = [w EXCEPT ![r] = httpError(w[r], JokeErrMsg(variant),
                                               StatusInternalServerError, TRUE)]
            /\ UNCHANGED wrote
       ELSE \E wo \in WriteOutcomes(joke[r]) :
               /\ w' = [w EXCEPT ![r] =
                           returnCompleteJoke_func(variant, joke[r], w[r], wo)]
               /\ wrote' = [wrote EXCEPT ![r] =
                               [done |-> TRUE, ok |-> wo.ok, n |-> wo.n]]
    /\ pc' = [pc EXCEPT ![r] = "done"]
    /\ ctx' = [ctx EXCEPT ![r] = TRUE]
    /\ UNCHANGED <<config, alive, wg, locals, gName, gJoke, jokeReq,
                   nameResp, jokeResp, nameRet, jokeRet>>

\* the client of a request goes away while a provider call of that request
\* is in flight: the server cancels the request's context.  Neither main.go
\* reads r.Context(), and both build the outbound request with
\* http.NewRequest, which gives it the background context.
ClientDisconnect(r) ==
    /\ alive
    /\ gName[r] = "inflight" \/ gJoke[r] = "inflight"
    /\ ~ctx[r]
    /\ ctx' = [ctx EXCEPT ![r] = TRUE]
    /\ UNCHANGED <<config, alive, pc, wg, locals, gName, gJoke, w, jokeReq,
                   nameResp, jokeResp, nameRet, jokeRet, wrote>>

Next ==
    \E r \in Reqs :
        \/ Serve(r)
        \/ NameSend(r)
        \/ NameMock(r)
        \/ NameReturn(r)
        \/ AfterName(r)
        \/ JokeSend(r)
        \/ JokeMock(r)
        \/ JokeReturn(r)
        \/ AfterJoke(r)
        \/ ClientDisconnect(r)

Spec == Init /\ [][Next]_vars

(***************************************************************************)
(* Vocabulary of the properties.                                           *)
(***************************************************************************)
Done(r) == pc[r] = "done"
NameReturned(r) == gName[r] \in {"exited"}
JokeReturned(r) == gJoke[r] \in {"exited"}
NameFailed(r) == NameReturned(r) /\ nameRet[r].err # nil
NameSucceeded(r) == NameReturned(r) /\ nameRet[r].err = nil
JokeFailed(r) == JokeReturned(r) /\ jokeRet[r].err # nil
JokeSucceeded(r) == JokeReturned(r) /\ jokeRet[r].err = nil
ErrorBody(msg) == <<msg, "\n">>
ErrorCalls(msg) == << <<"WriteHeader", StatusInternalServerError>>,
                      <<"Write", ErrorBody(msg)>> >>

\* a step of getRoot or of one of its goroutines for request r
Step(r) ==
    \/ NameSend(r) \/ NameMock(r) \/ NameReturn(r) \/ AfterName(r)
    \/ JokeSend(r) \/ JokeMock(r) \/ JokeReturn(r) \/ AfterJoke(r)

(***************************************************************************)
(* C1.  As claimed: whenever getRandomName and getRandomJoke both return   *)
(* without error, the response has status 200 and its body is exactly the  *)
(* string j that getRandomJoke returned.                                   *)
(***************************************************************************)
C1_BodyIsJokeAlways ==
    \A r \in Reqs :
        Done(r) /\ NameSucceeded(r) /\ JokeSucceeded(r)
            => w[r].status = StatusOK /\ w[r].body = jokeRet[r].val

\* C1, amended: when both providers return without error the status is 200,
\* and the body is exactly j whenever io.WriteString reported no error
C1_BodyIsJokeWhenWritten ==
    \A r \in Reqs :
        Done(r) /\ NameSucceeded(r) /\ JokeSucceeded(r)
            => /\ w[r].status = StatusOK
               /\ wrote[r].done
               /\ wrote[r].ok => w[r].body = jokeRet[r].val

C1_Witness ==
    \E r \in Reqs :
        /\ Done(r) /\ NameSucceeded(r) /\ JokeSucceeded(r)
        /\ wrote[r].ok
        /\ jokeRet[r].val # <<>>
        /\ w[r].body = jokeRet[r].val

(***************************************************************************)
(* C2.  When getRandomName returns an error, getRandomJoke is never        *)
(* invoked for that request, and the response is 500 with the text         *)
(* "failed to get name".                                                   *)
(***************************************************************************)
C2_NameFailureShortCircuits ==
    \A r \in Reqs :
        NameFailed(r)
            => /\ jokeRet[r].calls = 0
               /\ gJoke[r] = "none"
               /\ pc[r] \in {"wait1", "done"}
               /\ Done(r) => /\ w[r].status = StatusInternalServerError
                             /\ w[r].body = ErrorBody("failed to get name")

C2_Witness ==
    \E r \in Reqs :
        /\ Done(r) /\ NameFailed(r)
        /\ w[r].status = StatusInternalServerError

(***************************************************************************)
(* C3.  When getRandomName succeeds and getRandomJoke returns an error,    *)
(* the response is 500 with the text "failed to get joke", which is not    *)
(* the name-stage text, and no joke text is written.                       *)
(***************************************************************************)
C3_JokeFailureIs500 ==
    \A r \in Reqs :
        Done(r) /\ NameSucceeded(r) /\ JokeFailed(r)
            => /\ w[r].status = StatusInternalServerError
               /\ w[r].body = ErrorBody("failed to get joke")
               /\ w[r].body # ErrorBody(NameErrMsg(variant))
               /\ w[r].calls = ErrorCalls("failed to get joke")
               /\ ~wrote[r].done

C3_Witness ==
    \E r \in Reqs :
        /\ Done(r) /\ NameSucceeded(r) /\ JokeFailed(r)
        /\ nameRet[r].val.FirstName # <<>>

(***************************************************************************)
(* C4.  When getRandomName succeeds with (first, last), getRandomJoke is   *)
(* invoked with exactly (first, last) of the same request, in that order.  *)
(***************************************************************************)
C4_NamePassthrough ==
    \A r \in Reqs :
        /\ jokeRet[r].calls > 0
              => /\ NameSucceeded(r)
                 /\ jokeRet[r].args = <<nameRet[r].val.FirstName,
                                        nameRet[r].val.LastName>>
        /\ Done(r) /\ NameSucceeded(r) => jokeRet[r].calls = 1

C4_Witness ==
    \E r \in Reqs :
        /\ jokeRet[r].calls = 1
        /\ NameSucceeded(r)
        /\ nameRet[r].val.FirstName # <<>>
        /\ nameRet[r].val.LastName # <<>>
        /\ nameRet[r].val.FirstName # nameRet[r].val.LastName

(***************************************************************************)
(* C5.  As claimed: no failure of a remote call or of parsing its response *)
(* ends the server process; the process keeps running and the request is   *)
(* answered with 500.                                                      *)
(***************************************************************************)
CallFailed(resp) ==
    \/ resp.o.kind \in {"neterr", "readerr"}
    \/ resp.o.kind = "response" /\ resp.json \in {"invalid", "mismatch"}

C5_FailureNeverExits ==
    \A r \in Reqs :
        CallFailed(nameResp[r]) \/ CallFailed(jokeResp[r])
            => /\ alive
               /\ Done(r) => w[r].status = StatusInternalServerError

(***************************************************************************)
(* C6.  As claimed: a service answering with a non-2xx status makes the    *)
(* provider return an error, so the request never ends with 200.           *)
(***************************************************************************)
Non2xx(resp) == resp.o.kind = "response" /\ ~Is2xx(resp.o.status)

C6_Non2xxIsAnError ==
    \A r \in Reqs :
        /\ NameReturned(r) /\ Non2xx(nameResp[r]) => nameRet[r].err # nil
        /\ JokeReturned(r) /\ Non2xx(jokeResp[r]) => jokeRet[r].err # nil
        /\ Done(r) /\ (Non2xx(nameResp[r]) \/ Non2xx(jokeResp[r]))
              => w[r].status # StatusOK

(***************************************************************************)
(* C7.  As claimed: a JSON body that lacks a required field makes the      *)
(* provider return an error, so the request never ends with 200.           *)
(***************************************************************************)
C7_MissingFieldIsAnError ==
    \A r \in Reqs :
        /\ NameReturned(r) /\ nameResp[r].missing => nameRet[r].err # nil
        /\ JokeReturned(r) /\ jokeResp[r].missing => jokeRet[r].err # nil
        /\ Done(r) /\ (nameResp[r].missing \/ jokeResp[r].missing)
              => w[r].status # StatusOK

(***************************************************************************)
(* C8.  As claimed: once the request's context is canceled while a         *)
(* provider call of the request is in flight, getRoot writes nothing to    *)
(* the response: no status, no joke, no error text.                        *)
(***************************************************************************)
C8_CancelAbandonsResponse ==
    [][\A r \in Reqs : ctx[r] /\ ~Done(r) => w'[r] = w[r]]_vars

(***************************************************************************)
(* C9.  As claimed: with both providers succeeding for every request, any  *)
(* interleaving of the requests leaves each of them with status 200 and    *)
(* the joke produced for its own name pair as its body, and none of them   *)
(* stuck.                                                                  *)
(***************************************************************************)
ProvidersSucceed ==
    \A q \in Reqs : nameRet[q].err = nil /\ ~nameRet[q].exit
                    /\ jokeRet[q].err = nil /\ ~jokeRet[q].exit

OwnJoke(r) ==
    /\ jokeRet[r].calls = 1
    /\ jokeRet[r].args = <<nameRet[r].val.FirstName, nameRet[r].val.LastName>>
    /\ getRandomJoke = "real" /\ ~jokeResp[r].missing
          => jokeRet[r].val = <<"Joke about ">> \o nameRet[r].val.FirstName
                                 \o <<" ">> \o nameRet[r].val.LastName

C9_ConcurrentRequestsAlways ==
    ProvidersSucceed =>
        \A r \in Reqs :
            /\ pc[r] \in {"wait1", "wait2"} => ENABLED Step(r)
            /\ Done(r) => /\ w[r].status = StatusOK
                          /\ OwnJoke(r)
                          /\ w[r].body = jokeRet[r].val

\* C9, amended: under the same assumption no request is stuck, each one
\* ends with status 200 after calling getRandomJoke with its own name pair,
\* and its body is that call's joke whenever io.WriteString reported no error
C9_ConcurrentRequestsWhenWritten ==
    ProvidersSucceed =>
        \A r \in Reqs :
            /\ pc[r] \in {"wait1", "wait2"} => ENABLED Step(r)
            /\ Done(r) => /\ w[r].status = StatusOK
                          /\ OwnJoke(r)
                          /\ wrote[r].ok => w[r].body = jokeRet[r].val

C9_Witness ==
    /\ ProvidersSucceed
    /\ \A r \in Reqs : Done(r) /\ wrote[r].ok
    /\ \E r, q \in Reqs : w[r].body # w[q].body

(***************************************************************************)
(* C10.  As claimed: two requests that met the same provider outcomes get  *)
(* the same status and the same body.                                      *)
(***************************************************************************)
SameProviderOutcomes(r, q) ==
    /\ nameRet[r] = nameRet[q]
    /\ jokeRet[r] = jokeRet[q]

C10_ResponseDeterminedAlways ==
    \A r, q \in Reqs :
        Done(r) /\ Done(q) /\ SameProviderOutcomes(r, q)
            => w[r].status = w[q].status /\ w[r].body = w[q].body

\* C10, amended: two requests that met the same provider outcomes and the
\* same outcome of io.WriteString get the same status and the same body
C10_ResponseDeterminedWhenWritten ==
    \A r, q \in Reqs :
        Done(r) /\ Done(q) /\ SameProviderOutcomes(r, q) /\ wrote[r] = wrote[q]
            => w[r].status = w[q].status /\ w[r].body = w[q].body

C10_Witness ==
    \E r, q \in Reqs :
        /\ r # q
        /\ Done(r) /\ Done(q) /\ SameProviderOutcomes(r, q) /\ wrote[r] = wrote[q]
        /\ wrote[r].ok
        /\ w[r].status = StatusOK

(***************************************************************************)
(* C11.  The error reply does not depend on the upstream cause: any two    *)
(* requests that failed at the same stage got status 500 and the same      *)
(* body, whatever error each provider returned, and the body holds no text *)
(* of the provider's error nor of the error getRoot wrapped it in.         *)
(***************************************************************************)
Chunks(s) == { s[i] : i \in 1..Len(s) }

SameStageFailed(r, q) ==
    \/ NameFailed(r) /\ NameFailed(q)
    \/ JokeFailed(r) /\ JokeFailed(q)

\* the error the failed provider of request r returned
Cause(r) == IF NameFailed(r) THEN nameRet[r].err ELSE jokeRet[r].err

C11_ErrorReplyHidesCause ==
    \A r, q \in Reqs :
        Done(r) /\ Done(q) /\ SameStageFailed(r, q)
            => /\ w[r].status = StatusInternalServerError
               /\ w[q].status = StatusInternalServerError
               /\ w[r].body = w[q].body
               /\ Chunks(w[r].body) \cap (Chunks(Cause(r)) \cup Chunks(err[r])) = {}

\* two requests failed at the name stage on different errors
C11_Witness ==
    \E r, q \in Reqs :
        /\ Done(r) /\ Done(q)
        /\ NameFailed(r) /\ NameFailed(q)
        /\ nameRet[r].err # nameRet[q].err
        /\ w[r].status = StatusInternalServerError
        /\ w[r].body = w[q].body

(***************************************************************************)
(* C12.  Within one request the two provider calls are strictly            *)
(* sequential: the goroutine calling getRandomJoke exists only after the   *)
(* goroutine calling getRandomName has ended with a nil error, so the two  *)
(* calls of a request are never both in flight.                            *)
(***************************************************************************)
NameCallRunning(r) == gName[r] \in {"start", "inflight"}
JokeCallRunning(r) == gJoke[r] \in {"start", "inflight"}

C12_CallsAreSequential ==
    \A r \in Reqs :
        /\ ~(NameCallRunning(r) /\ JokeCallRunning(r))
        /\ gJoke[r] # "none"
              => /\ gName[r] = "exited"
                 /\ nameRet[r].calls = 1
                 /\ nameRet[r].err = nil
                 /\ ~nameRet[r].exit

\* the joke call of a request is in flight: its name call is over
C12_Witness ==
    \E r \in Reqs :
        /\ gJoke[r] = "inflight"
        /\ gName[r] = "exited"
        /\ nameRet[r].err = nil

(***************************************************************************)
(* C13.  There are no retries: during one request getRandomName is called  *)
(* exactly once and getRandomJoke at most once, on every path; a stage     *)
(* that failed is not attempted again.                                     *)
(***************************************************************************)
C13_NoRetries ==
    \A r \in Reqs :
        /\ nameRet[r].calls <= 1
        /\ jokeRet[r].calls <= 1
        /\ gName[r] \in {"inflight", "exited"} => nameRet[r].calls = 1
        /\ Done(r) => nameRet[r].calls = 1
        /\ NameFailed(r) => jokeRet[r].calls = 0
        /\ JokeFailed(r) => jokeRet[r].calls = 1 /\ ~JokeCallRunning(r)

\* a request ended on a failed joke call, each provider called once
C13_Witness ==
    \E r \in Reqs :
        /\ Done(r) /\ JokeFailed(r)
        /\ nameRet[r].calls = 1
        /\ jokeRet[r].calls = 1

(***************************************************************************)
(* C14.  The per-request state machine.  Phase(r) reads the state of       *)
(* request r off getRoot: Start until the first wg.Wait() is passed with a *)
(* nil err, NameReady from then until the joke call has returned a joke,   *)
(* JokeReady until the handler has passed the second wg.Wait(), and one of *)
(* the three terminal states once getRoot has returned.                    *)
(***************************************************************************)
Phase(r) ==
    CASE pc[r] = "done" /\ NameFailed(r) -> "Error(name)"
      [] pc[r] = "done" /\ ~NameFailed(r) /\ JokeFailed(r) -> "Error(joke)"
      [] pc[r] = "done" /\ ~NameFailed(r) /\ ~JokeFailed(r) -> "Done"
      [] pc[r] = "wait2" /\ gJoke[r] = "exited" /\ err[r] = nil -> "JokeReady"
      [] pc[r] = "wait2" /\ ~(gJoke[r] = "exited" /\ err[r] = nil) -> "NameReady"
      [] OTHER -> "Start"

Terminal == {"Done", "Error(name)", "Error(joke)"}

Transitions ==
    { <<"Start", "NameReady">>, <<"NameReady", "JokeReady">>,
      <<"JokeReady", "Done">>, <<"Start", "Error(name)">>,
      <<"NameReady", "Error(joke)">> }

\* the status a terminal state answers with
PhaseStatus(p) == IF p = "Done" THEN StatusOK ELSE StatusInternalServerError

\* how many of the handler's calls on the writer write a status: every
\* WriteHeader, and a Write made before any other call (it writes 200)
StatusWrites(rw) ==
    Cardinality({ i \in 1..Len(rw.calls) :
                    \/ rw.calls[i][1] = "WriteHeader"
                    \/ rw.calls[i][1] = "Write" /\ i = 1 })

\* C14, as claimed: a request moves only along the transitions of the
\* machine, no step leaves a terminal state or touches its response, and a
\* request entering a terminal state has written exactly one status
C14_StateMachine ==
    [][\A r \in Reqs :
          /\ Phase(r)' # Phase(r) => <<Phase(r), Phase(r)'>> \in Transitions
          /\ Phase(r) \in Terminal => Phase(r)' = Phase(r) /\ w'[r] = w[r]
          /\ Phase(r)' \in Terminal
                => /\ w'[r].status = PhaseStatus(Phase(r)')
                   /\ StatusWrites(w'[r]) = 1]_vars

\* the part of C14 that holds: the transitions, the terminal states, and
\* the one status the response carries (the first one written)
C14_StateMachineCommitsOneStatus ==
    [][\A r \in Reqs :
          /\ Phase(r)' # Phase(r) => <<Phase(r), Phase(r)'>> \in Transitions
          /\ Phase(r) \in Terminal => Phase(r)' = Phase(r) /\ w'[r] = w[r]
          /\ Phase(r)' \in Terminal
                => /\ w'[r].status = PhaseStatus(Phase(r)')
                   /\ StatusWrites(w'[r]) >= 1]_vars

\* a request is in Done after a failed write of the joke
C14_Witness ==
    \E r \in Reqs :
        /\ Phase(r) = "Done"
        /\ wrote[r].done /\ ~wrote[r].ok
        /\ StatusWrites(w[r]) = 2

(***************************************************************************)
(* The program under a fair scheduler: a goroutine that can take its next  *)
(* step takes it, and a provider call that is in flight returns (with a    *)
(* result, an error, or the client's 30 second timeout as an error).       *)
(* Requests need not arrive and clients need not disconnect.               *)
(***************************************************************************)
Fairness ==
    \A r \in Reqs :
        /\ WF_vars(NameSend(r))
        /\ WF_vars(NameMock(r))
        /\ WF_vars(NameReturn(r))
        /\ WF_vars(AfterName(r))
        /\ WF_vars(JokeSend(r))
        /\ WF_vars(JokeMock(r))
        /\ WF_vars(JokeReturn(r))
        /\ WF_vars(AfterJoke(r))

FairSpec == Spec /\ Fairness

(***************************************************************************)
(* C15.  As claimed: under the fair scheduler every request the server     *)
(* has started to handle is eventually answered, with 200 or 500.          *)
(***************************************************************************)
Answered(r) ==
    Done(r) /\ w[r].status \in {StatusOK, StatusInternalServerError}

C15_EveryRequestAnswered ==
    \A r \in Reqs : (pc[r] = "wait1") ~> Answered(r)

\* the part of C15 that holds: a request is answered unless the process
\* has ended, and getRoot never waits on a WaitGroup nobody will release
C15_AnsweredWhileAlive ==
    \A r \in Reqs : (pc[r] = "wait1") ~> (Answered(r) \/ ~alive)

(***************************************************************************)
(* C16.  As claimed: when io.WriteString fails in returnCompleteJoke the   *)
(* handler does nothing more with the response, so the failed write of the *)
(* joke is the only call it ever made on the writer.                       *)
(***************************************************************************)
WriteFailed(r) == wrote[r].done /\ ~wrote[r].ok

C16_NothingAfterFailedWrite ==
    \A r \in Reqs :
        WriteFailed(r) => w[r].calls = << <<"Write", jokeRet[r].val>> >>

\* after a failed write the handler went on to call http.Error
C16_Witness ==
    \E r \in Reqs :
        /\ WriteFailed(r)
        /\ Len(w[r].calls) = 3
        /\ w[r].calls[2] = <<"WriteHeader", StatusInternalServerError>>
        /\ w[r].calls[3][1] = "Write"
        /\ w[r].status = StatusOK

(***************************************************************************)
(* C17.  As claimed: a name-service body that is not valid JSON makes      *)
(* getRandomName return an error, getRandomJoke is not called for that     *)
(* request, and the request ends with status 500.                          *)
(***************************************************************************)
NonJSONName(r) == nameResp[r].o.kind = "response" /\ nameResp[r].json = "invalid"

C17_NonJSONNameIsAnError ==
    \A r \in Reqs :
        NonJSONName(r)
            => /\ ~nameRet[r].exit
               /\ nameRet[r].err # nil
               /\ jokeRet[r].calls = 0
               /\ Done(r) => w[r].status = StatusInternalServerError

\* getRandomName met a non-JSON body and ended the process instead of
\* returning an error
C17_Witness ==
    \E r \in Reqs :
        /\ NonJSONName(r)
        /\ nameRet[r].exit
        /\ ~alive
        /\ w[r].status = 0

(***************************************************************************)
(* C18.  Handling a request changes no state that outlives it: no step of  *)
(* getRoot or of its goroutines assigns the bindings getRandomName,        *)
(* getRandomJoke and returnCompleteJoke, and a step taken for one request  *)
(* leaves name, joke, err and wg of every other request as they were.      *)
(***************************************************************************)
Bindings == <<getRandomName, getRandomJoke, returnCompleteJoke>>
Locals(r) == <<name[r], joke[r], err[r], wg[r]>>

\* where getRoot and its goroutines stand for request r; every step taken
\* for r moves it, except the one that ends the process
Position(r) == <<pc[r], gName[r], gJoke[r]>>

C18_RequestsShareNoState ==
    [][/\ Bindings' = Bindings
       /\ \A r \in Reqs :
             Position(r)' # Position(r)
                 => \A q \in Reqs \ {r} : Locals(q)' = Locals(q)]_vars

\* a request has finished, failed, and written its locals while another
\* request, served by the same bindings, still holds its own
C18_Witness ==
    \E r, q \in Reqs :
        /\ r # q
        /\ Done(r) /\ err[r] # nil
        /\ pc[q] = "wait2" /\ err[q] = nil /\ name[q] # name[r]
        /\ Bindings = <<"real", "real", "real">>

(***************************************************************************)
(* C19.  The handler and its goroutines never race on name, joke and err:  *)
(* the WaitGroup counter of a request is 0 or 1, it is 1 exactly while a   *)
(* stage goroutine of the request exists, at most one such goroutine       *)
(* exists at a time, the counter is 0 when getRoot has returned, and the   *)
(* handler's steps that read err, name and joke are taken only while the   *)
(* counter is 0 and no goroutine of the request exists; the locals change  *)
(* only in a step of the one goroutine that exists.                        *)
(***************************************************************************)
WaitGroupInv(r) ==
    /\ wg[r] \in {0, 1}
    /\ ~(NameCallRunning(r) /\ JokeCallRunning(r))
    /\ wg[r] = 1 <=> NameCallRunning(r) \/ JokeCallRunning(r)
    /\ Done(r) => wg[r] = 0

\* the steps in which the handler reads its locals: the ones that take it
\* past a wg.Wait()
HandlerReads(r) == pc[r] \in {"wait1", "wait2"} /\ pc'[r] # pc[r]

C19_NoRaceOnLocals ==
    /\ [](\A r \in Reqs : WaitGroupInv(r))
    /\ [][\A r \in Reqs :
             /\ HandlerReads(r)
                   => wg[r] = 0 /\ ~NameCallRunning(r) /\ ~JokeCallRunning(r)
             /\ <<name[r], joke[r], err[r]>>' # <<name[r], joke[r], err[r]>>
                   => wg[r] = 1 /\ wg'[r] = 0]_vars

\* getRoot has returned the joke it read after the second goroutine's Done
C19_Witness ==
    \E r \in Reqs :
        /\ Done(r)
        /\ wg[r] = 0
        /\ gName[r] = "exited" /\ gJoke[r] = "exited"
        /\ joke[r] # <<>>
        /\ wrote[r].ok /\ w[r].body = joke[r]

=============================================================================
